---------------------------- MODULE Spec2Model ----------------------------
(***************************************************************************)
(* A model of the data-acquisition pipeline of repeaterbook                *)
(* (src/src/repeaterbook/services.py):                                     *)
(*   - RepeaterBookAPI.urls_export   endpoint routing and query strings    *)
(*   - fetch_json                    TTL cache over a POSIX directory      *)
(*   - RepeaterBookAPI.export_json / export_multi_json / download          *)
(***************************************************************************)
EXTENDS Integers, Sequences, FiniteSets, TLC

VARIABLES
    query,      \* the ExportQuery handed to urls_export / download
    urls,       \* the set of URLs urls_export returned for query
    routed,     \* TRUE once urls_export has returned for query
    now,        \* time.time(), in ticks
    calls,      \* requests the server has answered (the handler's counter)
    served,     \* served[v]: the body the server sent for request v
    serverBodies, \* the bodies the server may send
    cachedir,   \* the .repeaterbook_cache directory and its .gitignore
    dir,        \* directory entries of the cache directory: name -> inode
    inodes,     \* inode -> [data, mtime]
    proc,       \* the running fetch_json / export_json calls
    gather,     \* the outer future of asyncio.gather in export_multi_json
    dl,         \* the download call: where it is and what it gave
    failLog,    \* history: the export_json failures, in the order they occurred
    wrote,      \* history: per URL, what the call that last replaced its
                \* artifact returned
    raw,        \* the raw record handed to json_to_model
    model,      \* what json_to_model gave for raw
    geo,        \* the radius filter: its arguments, the box and the result
    bandq       \* the band predicate: its bands, a frequency, the answer

filterVars == <<geo, bandq>>
modelVars == <<raw, model>>
routeVars == <<query, urls, routed>>
fsVars    == <<cachedir, dir, inodes>>
netVars   == <<calls, served, serverBodies>>
dlVars    == <<gather, dl, failLog>>
vars      == <<query, urls, routed, now, calls, served, serverBodies, cachedir,
               dir, inodes, proc, gather, dl, failLog, wrote, raw, model,
               geo, bandq>>

(***************************************************************************)
(* The radius filter and the band predicate.  Angles are whole degrees on  *)
(* a 15-degree grid, a radius distance is the arc of so many degrees, and  *)
(* cosines are fixed-point numbers of TrigScale to the unit.               *)
(***************************************************************************)

TrigScale == 10000
CosTable ==
    (0 :> 10000) @@ (15 :> 9659) @@ (30 :> 8660) @@ (45 :> 7071)
        @@ (60 :> 5000) @@ (75 :> 2588) @@ (90 :> 0)

Abs(x) == IF x < 0 THEN -x ELSE x

\* cos of an angle of the grid, by the symmetries of the cosine.
CosDeg(a) ==
    LET x == Abs(a) % 360
        y == IF x > 180 THEN 360 - x ELSE x
    IN  IF y <= 90 THEN CosTable[y] ELSE -CosTable[180 - y]

\* hav(a) = (1 - cos a) / 2.
Hav(a) == (TrigScale - CosDeg(a)) \div 2

LatLon(lat, lon) == [lat |-> lat, lon |-> lon]
Radius(origin, distance) == [origin |-> origin, distance |-> distance]
SquareBounds(north, south, east, west) ==
    [north |-> north, south |-> south, east |-> east, west |-> west]

\* The haversine formula: hav of the central angle between p and q.  The
\* great-circle distance grows with it, so distances are compared by it.
haversine(p, q) ==
    Hav(q.lat - p.lat)
        + (((CosDeg(p.lat) * CosDeg(q.lat)) \div TrigScale) * Hav(q.lon - p.lon))
              \div TrigScale

\* distance(p, q) <= d, d the arc of so many degrees.
WithinDistance(p, q, d) == haversine(p, q) <= Hav(d)

\* The latitude delta of a radius (distance / per-degree latitude arc) and its
\* longitude delta (distance / per-degree longitude arc at the origin's
\* latitude), the latter rounded up to a whole degree.
lat_delta(radius) == radius.distance
lon_delta(radius) ==
    (radius.distance * TrigScale + CosDeg(radius.origin.lat) - 1)
        \div CosDeg(radius.origin.lat)

\* square_bounds(radius): the box of the deltas around the origin; an axis on
\* which the box would pass the pole or the antimeridian opens to its full
\* range.
square_bounds_Clamp(radius) ==
    LET south == radius.origin.lat - lat_delta(radius)
        north == radius.origin.lat + lat_delta(radius)
        west  == radius.origin.lon - lon_delta(radius)
        east  == radius.origin.lon + lon_delta(radius)
    IN  SquareBounds(IF north > 90 THEN 90 ELSE north,
                     IF south < -90 THEN -90 ELSE south,
                     IF east > 180 THEN 180 ELSE east,
                     IF west < -180 THEN -180 ELSE west)

square_bounds(radius) ==
    LET south == radius.origin.lat - lat_delta(radius)
        north == radius.origin.lat + lat_delta(radius)
        west  == radius.origin.lon - lon_delta(radius)
        east  == radius.origin.lon + lon_delta(radius)
        lat_wraps == south < -90 \/ north > 90
        lon_wraps == west < -180 \/ east > 180
    IN  SquareBounds(IF lat_wraps THEN 90 ELSE north,
                     IF lat_wraps THEN -90 ELSE south,
                     IF lon_wraps THEN 180 ELSE east,
                     IF lon_wraps THEN -180 ELSE west)

\* The position of a record, and the bounding-box pre-filter.
PositionOf(rep) == LatLon(rep.latitude, rep.longitude)
InBounds(bounds, rep) ==
    /\ bounds.south <= rep.latitude /\ rep.latitude <= bounds.north
    /\ bounds.west <= rep.longitude /\ rep.longitude <= bounds.east

RECURSIVE SortedByDistance(_, _)
\* sorted(..., key=distance): ascending and stable.  The last record goes
\* behind every record of the sorted rest that is no farther than it.
SortedByDistance(reps, origin) ==
    IF reps = <<>> THEN <<>>
    ELSE LET last == reps[Len(reps)]
             rest == SortedByDistance(SubSeq(reps, 1, Len(reps) - 1), origin)
             Key(rep) == haversine(origin, PositionOf(rep))
             before == SelectSeq(rest, LAMBDA x : Key(x) <= Key(last))
             after == SelectSeq(rest, LAMBDA x : Key(x) > Key(last))
         IN  before \o <<last>> \o after

\* filter_radius(repeaters, radius): the pre-filter, the distance test on what
\* it lets through, and the sort.
filter_radius(repeaters, radius) ==
    LET bounds == square_bounds(radius)
        survivors == SelectSeq(repeaters, LAMBDA rep : InBounds(bounds, rep))
        near == SelectSeq(survivors,
                          LAMBDA rep : WithinDistance(radius.origin, PositionOf(rep),
                                                      radius.distance))
    IN  SortedByDistance(near, radius.origin)

\* The origins, distances and record positions the filter is run on.
MaxRepeaters == 2
GeoOrigins == {LatLon(lat, lon) : lat \in {0, 75}, lon \in {0, 165}}
GeoDistances == {15, 30}
GeoPositions == {LatLon(lat, lon) : lat \in {0, 75}, lon \in {-165, -15, 0, 15, 60}}
NoGeo == [radius |-> Radius(LatLon(0, 0), 15), repeaters |-> <<>>,
          bounds |-> SquareBounds(0, 0, 0, 0), result |-> <<>>, called |-> FALSE]

\* Band(low, high) in hundredths of a MHz, and the bands the tests give.
Band(low, high) == [low |-> low, high |-> high]
Bands == [M_2 |-> Band(14400, 14800), CM_70 |-> Band(42000, 45000)]

\* band(b1, ..., bn) applied to a record's frequency.
band_HalfOpen(bands, frequency) ==
    \E bnd \in bands : bnd.low <= frequency /\ frequency < bnd.high

band(bands, frequency) ==
    \E bnd \in bands : bnd.low <= frequency /\ frequency <= bnd.high

\* The frequencies the predicate is applied to: every quarter MHz from 143 to
\* 149 MHz, every MHz from 419 to 451 MHz, and 146.94 MHz.
BandFrequencies ==
    {14300 + 25 * i : i \in 0..24} \cup {41900 + 100 * i : i \in 0..32}
        \cup {14694}
BandSets == (SUBSET {Bands.M_2, Bands.CM_70}) \ {{}}
NoBandQuery == [bands |-> {}, frequency |-> 0, matched |-> "-"]

(***************************************************************************)
(* json_to_model (lines 139-215) and the maps it reads.  A raw record is a *)
(* JSON object; a JSON value is a string, an integer or null, and a key    *)
(* the object does not have reads as Missing.                              *)
(***************************************************************************)

Missing == [t |-> "missing", s |-> "", n |-> 0]
Null    == [t |-> "null", s |-> "", n |-> 0]
JsonStr(x)  == [t |-> "str", s |-> x, n |-> 0]
JsonInt(k)  == [t |-> "int", s |-> "", n |-> k]

\* The fields of a raw record that the model follows.  The eight capability
\* fields read with b(), Precise, Use and Operational Status are all there;
\* "State ID" stands for the fields read with s(key), "PL" for those read with
\* s(key) or None.
BoolKeys ==
    {"FM Analog", "DMR", "D-Star", "NXDN", "APCO P-25", "M17", "Tetra",
     "System Fusion"}
RawKeys ==
    BoolKeys \cup {"State ID", "Rptr ID", "PL", "Region", "Precise", "Use",
                   "Operational Status"}

\* BOOL_MAP, USE_MAP and STATUS_MAP (lines 109-128).
BOOL_MAP ==
    (JsonStr("Yes") :> TRUE) @@ (JsonStr("No") :> FALSE) @@ (JsonInt(1) :> TRUE)
        @@ (JsonInt(0) :> FALSE)
USE_MAP_NoEmpty ==
    ("OPEN" :> "Use.OPEN") @@ ("PRIVATE" :> "Use.PRIVATE")
        @@ ("CLOSED" :> "Use.CLOSED") @@ ("" :> "Use.CLOSED")
USE_MAP ==
    ("OPEN" :> "Use.OPEN") @@ ("PRIVATE" :> "Use.PRIVATE")
        @@ ("CLOSED" :> "Use.CLOSED") @@ ("" :> "Use.OPEN")
STATUS_MAP_Swapped ==
    ("Off-air" :> "Status.ON_AIR") @@ ("On-air" :> "Status.OFF_AIR")
        @@ ("Unknown" :> "Status.UNKNOWN")
STATUS_MAP ==
    ("Off-air" :> "Status.OFF_AIR") @@ ("On-air" :> "Status.ON_AIR")
        @@ ("Unknown" :> "Status.UNKNOWN")

\* d.get(k, default) and j.get(key, default).
DictGet(d, k, default) == IF k \in DOMAIN d THEN d[k] ELSE default
Get(j, key, default) == IF j[key] = Missing THEN default ELSE j[key]

\* str(v) of a JSON string or integer.
PyStr(v) == IF v.t = "str" THEN v.s ELSE ToString(v.n)

\* bool(v): None, "" and 0 are falsy.
Truthy(v) == v \notin {Null, JsonStr(""), JsonInt(0)}

\* int(v): an integer is itself, a string of digits its value, any other
\* string a ValueError.
DigitStrings == ("0" :> 0) @@ ("1" :> 1) @@ ("7" :> 7)
IntOk(v) == v.t = "int" \/ (v.t = "str" /\ v.s \in DOMAIN DigitStrings)
PyInt(v) == IF v.t = "int" THEN v.n ELSE DigitStrings[v.s]

\* def s(key) (lines 151-155).
s(j, key) ==
    LET v == Get(j, key, JsonStr(""))
    IN  IF v = Null THEN "" ELSE PyStr(v)

\* s(key) or None.
OrNone(x) == IF x = "" THEN Null ELSE JsonStr(x)

\* def b(key, default) (lines 157-163).
b(j, key, default) == DictGet(BOOL_MAP, Get(j, key, Null), default)

\* int(j.get("Rptr ID", 0) or 0) (line 168).
RptrIdArg(j) ==
    IF Truthy(Get(j, "Rptr ID", JsonInt(0))) THEN Get(j, "Rptr ID", JsonInt(0))
    ELSE JsonInt(0)

NoRepeater == [state_id |-> "-"]
OkModel(r) == [kind |-> "ok", err |-> "-", rec |-> r]
RaiseModel(e) == [kind |-> "raise", err |-> e, rec |-> NoRepeater]
NotConverted == [kind |-> "none", err |-> "-", rec |-> NoRepeater]

\* use_membership=USE_MAP.get(s("Use"), Use.OPEN) (line 183).
use_membership(j) == DictGet(USE_MAP, s(j, "Use"), "Use.OPEN")

\* operational_status=... (lines 184-188), once the key is known to be in
\* STATUS_MAP or empty.
operational_status_OnAir(j) ==
    DictGet(STATUS_MAP, s(j, "Operational Status"), "Status.ON_AIR")

operational_status(j) ==
    IF s(j, "Operational Status") # ""
      THEN STATUS_MAP[s(j, "Operational Status")]
      ELSE "Status.UNKNOWN"

\* json_to_model(j): the arguments of Repeater(...) are evaluated in the order
\* they are written, so the first one that raises decides the error.
json_to_model(j) ==
    IF ~IntOk(RptrIdArg(j)) THEN RaiseModel("ValueError")
    ELSE IF Get(j, "Precise", JsonInt(0)) \notin DOMAIN BOOL_MAP
        THEN RaiseModel("KeyError")
    ELSE IF s(j, "Operational Status") # ""
            /\ s(j, "Operational Status") \notin DOMAIN STATUS_MAP
        THEN RaiseModel("KeyError")
    ELSE OkModel(
        [state_id                    |-> s(j, "State ID"),
         repeater_id                 |-> PyInt(RptrIdArg(j)),
         pl_ctcss_uplink             |-> OrNone(s(j, "PL")),
         region                      |-> Get(j, "Region", Null),
         precise                     |-> BOOL_MAP[Get(j, "Precise", JsonInt(0))],
         use_membership              |-> use_membership(j),
         operational_status          |-> operational_status(j),
         analog_capable              |-> b(j, "FM Analog", FALSE),
         dmr_capable                 |-> b(j, "DMR", FALSE),
         d_star_capable              |-> b(j, "D-Star", FALSE),
         nxdn_capable                |-> b(j, "NXDN", FALSE),
         apco_p_25_capable           |-> b(j, "APCO P-25", FALSE),
         m17_capable                 |-> b(j, "M17", FALSE),
         tetra_capable               |-> b(j, "Tetra", FALSE),
         yaesu_system_fusion_capable |-> b(j, "System Fusion", FALSE)])

\* The raw records json_to_model is given: the payload of the tests (lines
\* 119-157 of test_services.py), the object with no field at all and the one
\* whose every field is null, each with up to MaxOdd fields replaced by any
\* of the values below.
MaxOdd == 1

minimal_payload ==
    [k \in RawKeys |->
        CASE k = "State ID"           -> JsonStr("CA")
          [] k = "Rptr ID"            -> JsonInt(123)
          [] k = "PL"                 -> JsonStr("")
          [] k = "Region"             -> Missing
          [] k = "Precise"            -> JsonInt(1)
          [] k = "Use"                -> JsonStr("OPEN")
          [] k = "Operational Status" -> JsonStr("On-air")
          [] k = "FM Analog"          -> JsonStr("Yes")
          [] OTHER                    -> JsonStr("No")]
SparsePayload == [k \in RawKeys |-> Missing]
NullPayload == [k \in RawKeys |-> Null]

JsonValues ==
    {Missing, Null, JsonInt(0), JsonInt(1)}
        \cup {JsonStr(x) : x \in {"", "Yes", "No", "Maybe", "7", "OPEN", "PRIVATE",
                              "CLOSED", "Off-air", "On-air", "Unknown"}}

BasePayloads == {minimal_payload, SparsePayload, NullPayload}
OddKeys == {K \in SUBSET RawKeys : Cardinality(K) <= MaxOdd}
Patch(base, f) == [k \in RawKeys |-> IF k \in DOMAIN f THEN f[k] ELSE base[k]]

(***************************************************************************)
(* ExportQuery values.  Every field is a frozenset; the model draws each   *)
(* from the subsets of a small universe.                                   *)
(***************************************************************************)

\* pycountry records: the routing reads only country.name.
US      == [alpha_2 |-> "US", name |-> "United States"]
CA      == [alpha_2 |-> "CA", name |-> "Canada"]
MX      == [alpha_2 |-> "MX", name |-> "Mexico"]
DE      == [alpha_2 |-> "DE", name |-> "Germany"]

CountryUniverse   == {US, CA, MX, DE}
CallsignUniverse  == {"W6ABC"}
CityUniverse      == {"Lisbon"}
LandmarkUniverse  == {"Tower"}
\* Decimal frequencies as <<MHz, hundredths>>.
FrequencyUniverse == {<<146, 94>>}
ModeUniverse      == {"Mode.DMR", "Mode.ANALOG"}
RegionUniverse    == {"South America"}
StateIdUniverse   == {"06"}
CountyUniverse    == {"Orange"}
EmergencyUniverse == {"Emergency.ARES"}
ServiceUniverse   == {"ServiceType.GMRS"}

Queries ==
    [callsigns          : SUBSET CallsignUniverse,
     cities             : SUBSET CityUniverse,
     landmarks          : SUBSET LandmarkUniverse,
     countries          : SUBSET CountryUniverse,
     frequencies        : SUBSET FrequencyUniverse,
     modes              : SUBSET ModeUniverse,
     regions            : SUBSET RegionUniverse,
     state_ids          : SUBSET StateIdUniverse,
     counties           : SUBSET CountyUniverse,
     emergency_services : SUBSET EmergencyUniverse,
     service_types      : SUBSET ServiceUniverse]

EmptyQuery ==
    [callsigns |-> {}, cities |-> {}, landmarks |-> {}, countries |-> {},
     frequencies |-> {}, modes |-> {}, regions |-> {}, state_ids |-> {},
     counties |-> {}, emergency_services |-> {}, service_types |-> {}]

(***************************************************************************)
(* urls_export                                                             *)
(***************************************************************************)

NA_COUNTRIES == {"United States", "Canada", "Mexico"}

url_export_north_america == "https://repeaterbook.com/api/export.php"
url_export_rest_of_world == "https://repeaterbook.com/api/exportROW.php"

mode_map ==
    [m \in {"Mode.ANALOG", "Mode.DMR", "Mode.NXDN", "Mode.P25", "Mode.TETRA"} |->
        CASE m = "Mode.ANALOG" -> "analog"
          [] m = "Mode.DMR"    -> "DMR"
          [] m = "Mode.NXDN"   -> "NXDN"
          [] m = "Mode.P25"    -> "P25"
          [] m = "Mode.TETRA"  -> "tetra"]

emergency_map ==
    [e \in {"Emergency.ARES", "Emergency.RACES", "Emergency.SKYWARN",
            "Emergency.CANWARN"} |->
        CASE e = "Emergency.ARES"    -> "ARES"
          [] e = "Emergency.RACES"   -> "RACES"
          [] e = "Emergency.SKYWARN" -> "SKYWARN"
          [] e = "Emergency.CANWARN" -> "CANWARN"]

type_map == [t \in {"ServiceType.GMRS"} |-> "GMRS"]

\* str(frequency) of a Decimal with two fractional digits.
TwoDigits(n) == IF n < 10 THEN "0" \o ToString(n) ELSE ToString(n)
FrequencyStr(f) == ToString(f[1]) \o "." \o TwoDigits(f[2])

has_na_specific_NoCounty(q) ==
    \/ q.state_ids # {}
    \/ q.emergency_services # {}
    \/ q.service_types # {}

has_na_specific(q) ==
    \/ q.state_ids # {}
    \/ q.counties # {}
    \/ q.emergency_services # {}
    \/ q.service_types # {}

has_row_specific(q) == q.regions # {}

query_countries(q) == {country.name : country \in q.countries}

has_na_countries(q) == (query_countries(q) \cap NA_COUNTRIES) # {}

has_row_countries(q) == (query_countries(q) \ NA_COUNTRIES) # {}

query_na_endpoint_CountryFirst(q) ==
    IF query_countries(q) # {} THEN has_na_countries(q)
    ELSE IF has_row_specific(q) /\ ~has_na_specific(q) THEN FALSE
    ELSE TRUE

query_na_endpoint_RegionWins(q) ==
    IF has_row_specific(q) THEN FALSE
    ELSE IF has_na_specific(q) THEN TRUE
    ELSE IF query_countries(q) # {} THEN has_na_countries(q)
    ELSE TRUE

\* The if / elif / elif chain of lines 321-333, read for query_na_endpoint.
query_na_endpoint(q) ==
    IF has_na_specific(q) /\ ~has_row_specific(q) THEN TRUE
    ELSE IF has_row_specific(q) /\ ~has_na_specific(q) THEN FALSE
    ELSE IF query_countries(q) # {} THEN has_na_countries(q)
    ELSE TRUE

query_row_endpoint_AnyCountry(q) ==
    IF has_na_specific(q) /\ ~has_row_specific(q) THEN FALSE
    ELSE IF has_row_specific(q) /\ ~has_na_specific(q) THEN TRUE
    ELSE IF query_countries(q) # {} THEN TRUE
    ELSE TRUE

query_row_endpoint_NoHintNone(q) ==
    IF has_na_specific(q) /\ ~has_row_specific(q) THEN FALSE
    ELSE IF has_row_specific(q) /\ ~has_na_specific(q) THEN TRUE
    ELSE IF query_countries(q) # {} THEN has_row_countries(q)
    ELSE has_row_specific(q)

\* The same chain, read for query_row_endpoint.
query_row_endpoint(q) ==
    IF has_na_specific(q) /\ ~has_row_specific(q) THEN FALSE
    ELSE IF has_row_specific(q) /\ ~has_na_specific(q) THEN TRUE
    ELSE IF query_countries(q) # {} THEN has_row_countries(q)
    ELSE TRUE

\* {k: v for k, v in d.items() if v}: the keys with an empty list are dropped.
DropEmpty_Keep(d) == d

DropEmpty(d) == [k \in {k \in DOMAIN d : d[k] # {}} |-> d[k]]

\* ExportNorthAmericaQuery(...) of lines 335-346, before the empty keys go.
query_na(q) ==
    [callsign  |-> q.callsigns,
     city      |-> q.cities,
     landmark  |-> q.landmarks,
     country   |-> {country.name : country \in q.countries},
     frequency |-> {FrequencyStr(f) : f \in q.frequencies},
     mode      |-> {mode_map[m] : m \in q.modes},
     state_id  |-> q.state_ids,
     county    |-> q.counties,
     emcomm    |-> {emergency_map[e] : e \in q.emergency_services},
     stype     |-> {type_map[t] : t \in q.service_types}]

\* ExportWorldQuery(...) of lines 353-361.
query_world(q) ==
    [callsign  |-> q.callsigns,
     city      |-> q.cities,
     landmark  |-> q.landmarks,
     country   |-> {country.name : country \in q.countries},
     frequency |-> {FrequencyStr(f) : f \in q.frequencies},
     mode      |-> {mode_map[m] : m \in q.modes},
     region    |-> q.regions]

\* base % params: a URL is its path and the multi-valued parameters it carries.
MakeURL(base, params) == [path |-> base, params |-> params]

urls_export_OneBase(q) ==
    (IF query_na_endpoint(q)
        THEN {MakeURL(url_export_north_america, DropEmpty(query_na(q)))}
        ELSE {})
    \cup
    (IF query_row_endpoint(q)
        THEN {MakeURL(url_export_north_america, DropEmpty(query_world(q)))}
        ELSE {})

\* urls: set[URL], one URL added per endpoint to query (lines 368-377).
urls_export(q) ==
    (IF query_na_endpoint(q)
        THEN {MakeURL(url_export_north_america, DropEmpty(query_na(q)))}
        ELSE {})
    \cup
    (IF query_row_endpoint(q)
        THEN {MakeURL(url_export_rest_of_world, DropEmpty(query_world(q)))}
        ELSE {})

(***************************************************************************)
(* Routing specification: urls_export applied to every query of Queries.   *)
(***************************************************************************)

RouteInit ==
    /\ query \in Queries
    /\ urls = {}
    /\ routed = FALSE
    /\ now = 0
    /\ calls = 0
    /\ served = <<>>
    /\ serverBodies = {}
    /\ cachedir = [exists |-> FALSE, gitignore |-> FALSE]
    /\ dir = <<>>
    /\ inodes = <<>>
    /\ proc = <<>>
    /\ gather = [state |-> "idle", exc |-> "-", nfinished |-> 0, nfuts |-> 0]
    /\ dl = [pc |-> "idle", err |-> "-", records |-> <<>>]
    /\ failLog = <<>>
    /\ wrote = <<>>
    /\ raw = minimal_payload
    /\ model = NotConverted
    /\ geo = NoGeo
    /\ bandq = NoBandQuery

Route ==
    /\ ~routed
    /\ urls' = urls_export(query)
    /\ routed' = TRUE
    /\ UNCHANGED <<filterVars, modelVars, query, now, wrote, netVars, fsVars, proc, dlVars>>

SpecRoute == RouteInit /\ [][Route]_vars

(***************************************************************************)
(* Claims on the routing (SpecRoute).                                      *)
(***************************************************************************)

\* The claims' own reading of a query and of a URL set.
UsesRegionAField(q) ==
    \/ q.state_ids # {} \/ q.counties # {}
    \/ q.emergency_services # {} \/ q.service_types # {}
Paths(us) == {u.path : u \in us}
ExportPhp    == "https://repeaterbook.com/api/export.php"
ExportRowPhp == "https://repeaterbook.com/api/exportROW.php"

\* C5: a query with a region-A-only field (state_ids, counties,
\* emergency_services, service_types) and no regions gets exactly one URL, the
\* export.php one, whatever its countries and common fields hold.
C5_RegionAOnly ==
    routed /\ UsesRegionAField(query) /\ query.regions = {} =>
        /\ Cardinality(urls) = 1
        /\ Paths(urls) = {ExportPhp}

\* Rule 1 has applied to a query that names only a county, and Germany.
C5_Witness ==
    /\ routed /\ query.counties # {} /\ query.state_ids = {}
    /\ query.emergency_services = {} /\ query.service_types = {}
    /\ query.regions = {} /\ query.countries = {DE} /\ query.modes # {}
    /\ Paths(urls) = {ExportPhp}

\* C6: a query with regions and no region-A-only field gets exactly one URL,
\* the exportROW.php one, whatever its countries and common fields hold.
C6_RestOfWorldOnly ==
    routed /\ query.regions # {} /\ ~UsesRegionAField(query) =>
        /\ Cardinality(urls) = 1
        /\ Paths(urls) = {ExportRowPhp}

\* Rule 2 has applied to a query that names a region, and the United States.
C6_Witness ==
    /\ routed /\ query.regions # {} /\ ~UsesRegionAField(query)
    /\ query.countries = {US} /\ query.callsigns # {}
    /\ Paths(urls) = {ExportRowPhp}

\* C7: a query with no region-A-only field, no regions and some country gets
\* the export.php URL iff a country is United States, Canada or Mexico, and
\* the exportROW.php URL iff a country is none of the three.
C7_CountryRouting ==
    routed /\ ~UsesRegionAField(query) /\ query.regions = {}
           /\ query.countries # {} =>
        /\ ExportPhp \in Paths(urls) <=>
              \E c \in query.countries : c.name \in {"United States", "Canada", "Mexico"}
        /\ ExportRowPhp \in Paths(urls) <=>
              \E c \in query.countries : c.name \notin {"United States", "Canada", "Mexico"}
        /\ Cardinality(urls) = Cardinality(Paths(urls))

\* Rule 3 has sent a query for Canada and Mexico to export.php alone.
C7_Witness ==
    /\ routed /\ ~UsesRegionAField(query) /\ query.regions = {}
    /\ query.countries = {CA, MX}
    /\ Paths(urls) = {ExportPhp}

\* C8: a query whose state_ids, counties, emergency_services, service_types,
\* regions and countries are all empty gets exactly two URLs, one per endpoint.
C8_NoHintBoth ==
    routed /\ ~UsesRegionAField(query) /\ query.regions = {}
           /\ query.countries = {} =>
        /\ Cardinality(urls) = 2
        /\ Paths(urls) = {ExportPhp, ExportRowPhp}

\* A query with only a mode and a frequency has been routed to both.
C8_Witness ==
    /\ routed /\ ~UsesRegionAField(query) /\ query.regions = {}
    /\ query.countries = {} /\ query.modes # {} /\ query.frequencies # {}
    /\ Cardinality(urls) = 2

\* C9 as stated: a query with both a region-A-only field and regions gets both
\* the export.php URL and the exportROW.php URL.
C9_ConflictBoth ==
    routed /\ UsesRegionAField(query) /\ query.regions # {} =>
        /\ Paths(urls) = {ExportPhp, ExportRowPhp}
        /\ Cardinality(urls) = 2

\* C9, amended: a query with both a region-A-only field and regions gets both
\* URLs when it names no country; when it names countries they decide, as in
\* rule 3 (line 330 is reached before the fall-through).
C9_ConflictFallsThrough ==
    routed /\ UsesRegionAField(query) /\ query.regions # {} =>
        IF query.countries = {}
          THEN /\ Paths(urls) = {ExportPhp, ExportRowPhp}
               /\ Cardinality(urls) = 2
          ELSE /\ ExportPhp \in Paths(urls) <=>
                     \E c \in query.countries :
                         c.name \in {"United States", "Canada", "Mexico"}
               /\ ExportRowPhp \in Paths(urls) <=>
                     \E c \in query.countries :
                         c.name \notin {"United States", "Canada", "Mexico"}
               /\ Cardinality(urls) = Cardinality(Paths(urls))

\* A query with a state id and a region, and no country, routed to both.
C9_Witness ==
    /\ routed /\ query.state_ids # {} /\ query.regions # {}
    /\ query.countries = {}
    /\ Cardinality(urls) = 2

\* The query field behind each request parameter, and what each endpoint takes.
ParamField ==
    [callsign |-> "callsigns", city |-> "cities", landmark |-> "landmarks",
     country |-> "countries", frequency |-> "frequencies", mode |-> "modes",
     state_id |-> "state_ids", county |-> "counties",
     emcomm |-> "emergency_services", stype |-> "service_types",
     region |-> "regions"]
CommonParams == {"callsign", "city", "landmark", "country", "frequency", "mode"}
Understands(path) ==
    IF path = ExportPhp THEN CommonParams \cup {"state_id", "county", "emcomm", "stype"}
    ELSE CommonParams \cup {"region"}

\* C10: every URL of urls_export carries a parameter for exactly the non-empty
\* query fields its endpoint understands, one value per member of the field,
\* and with both endpoints queried each URL has every common parameter in full.
C10_QueryString ==
    routed =>
        /\ \A u \in urls :
              /\ DOMAIN u.params =
                    {k \in Understands(u.path) : query[ParamField[k]] # {}}
              /\ \A k \in DOMAIN u.params :
                    Cardinality(u.params[k]) = Cardinality(query[ParamField[k]])
        /\ \A u1, u2 \in urls : \A k \in CommonParams :
              k \in DOMAIN u1.params =>
                  k \in DOMAIN u2.params /\ u2.params[k] = u1.params[k]

\* Both endpoints were queried: a mode in both URLs, a county only in one, and
\* the empty fields in neither.
C10_Witness ==
    /\ routed /\ Cardinality(urls) = 2
    /\ query.modes = ModeUniverse /\ query.counties # {} /\ query.regions # {}
    /\ query.callsigns = {} /\ query.state_ids = {}
    /\ \A u \in urls : u.params["mode"] = {"DMR", "analog"}

(***************************************************************************)
(* The cache directory.  A file is an inode; a directory entry names one.  *)
(* open(.., "wb") creates or truncates, a write lands at the writer's own  *)
(* offset, rename moves the entry and leaves open descriptors on the inode.*)
(***************************************************************************)

NProcs      == 2    \* concurrent fetch_json / export_json calls
NChunks     == 2    \* writes it takes to stream one body to the file
MaxCalls    == 2    \* requests the server answers in one behaviour
MaxTime     == 2    \* ticks of the clock in one behaviour
MaxCacheAge == 2    \* the non-zero max_cache_age, in ticks

Procs     == 1..NProcs
CacheAges == {0, MaxCacheAge}

\* The URLs fetch_json is called with directly: the two export endpoints.
FetchURLs == urls_export(EmptyQuery)

\* hashlib.sha256(str(url)).hexdigest(): one key per URL, no two URLs sharing one.
hashed_url_OneKey(u) == <<"sha256">>

hashed_url(u) == <<"sha256", u.path, u.params>>
cache_file(u) == <<"api_cache_", hashed_url(u), ".json">>
temp_file(u) == <<"api_cache_", hashed_url(u), ".tmp">>

Hole == <<0, 0>>                       \* a block of the file nobody wrote
Chunk(v, i) == <<v, i>>                \* block i of the body of request v
Body(v) == [i \in 1..NChunks |-> Chunk(v, i)]
Versions == 1..(MaxCalls + 1)
Complete(data) == \E v \in Versions : data = Body(v)
VersionOf(data) == CHOOSE v \in Versions : data = Body(v)

Ok(v)      == [kind |-> "ok", v |-> v, err |-> "-", msg |-> "-"]
Raise(e)   == [kind |-> "raise", v |-> 0, err |-> e, msg |-> "-"]
RaiseMsg(e, msg) == [kind |-> "raise", v |-> 0, err |-> e, msg |-> msg]
NoResult   == [kind |-> "none", v |-> 0, err |-> "-", msg |-> "-"]
NoText     == <<"unread">>

\* json.loads(text): the decoded body, or JSONDecodeError on anything but one
\* whole body.
json_loads(data) ==
    IF Complete(data) THEN Ok(VersionOf(data)) ELSE Raise("JSONDecodeError")

\* A write of block c at 0-based offset off: the file grows with holes up to off.
WriteAt(data, off, c) ==
    LET n == IF Len(data) > off + 1 THEN Len(data) ELSE off + 1
    IN  [i \in 1..n |-> IF i = off + 1 THEN c
                        ELSE IF i <= Len(data) THEN data[i] ELSE Hole]

Exists(name) == name \in DOMAIN dir

\* Inodes still named by a directory entry of d or held open by a call of pr.
Live(d, pr) == {d[n] : n \in DOMAIN d} \cup {pr[q].fd : q \in Procs}
Collect(ino, d, pr) == [i \in (DOMAIN ino \cap Live(d, pr)) |-> ino[i]]
FreshInode == CHOOSE i \in 1..(2 * NProcs + 4) : i \notin DOMAIN inodes

IdleProc ==
    [pc |-> "idle", url |-> "-", maxage |-> 0, fd |-> 0, off |-> 0, resp |-> 0,
     text |-> NoText, ret |-> NoResult, warned |-> {}, req |-> 0,
     seen |-> [exists |-> FALSE, age |-> 0], task |-> FALSE]

NoGather == [state |-> "idle", exc |-> "-", nfinished |-> 0, nfuts |-> 0]
NoDownload == [pc |-> "idle", err |-> "-", records |-> <<>>]

(***************************************************************************)
(* export_json's checks of the decoded body (lines 388-409).               *)
(***************************************************************************)

\* A response of the server: its HTTP status, and its decoded JSON body as far
\* as export_json reads it: whether it is a dict, whether its "status" is
\* "error", whether it has a "message", its "count" and the length of its
\* "results" (Absent: no such key).
Absent == -1
JsonBody(isDict, isError, hasMessage, count, results) ==
    [http_ok |-> TRUE, dict |-> isDict, status_error |-> isError,
     message |-> hasMessage, count |-> count, results |-> results]
OkBody          == JsonBody(TRUE, FALSE, FALSE, 1, 1)
EmptyBody       == JsonBody(TRUE, FALSE, FALSE, 0, 0)
ErrorBody       == JsonBody(TRUE, TRUE, TRUE, Absent, Absent)
ListBody        == JsonBody(FALSE, FALSE, FALSE, Absent, Absent)
NoCountBody     == JsonBody(TRUE, FALSE, FALSE, Absent, 0)
\* A response with an error status: raise_for_status raises, no body is read.
NoBody          == [ListBody EXCEPT !.http_ok = FALSE]

\* self.max_count, the count from which a response may have been trimmed.
max_count == 2

\* The "message" of an error envelope.
RemoteMessage == "remote message"

\* data.get("message", "Unknown API error") (line 393).
api_error_message(body) ==
    IF body.message THEN RemoteMessage ELSE "Unknown API error"

\* export_json after fetch_json gave r (lines 388-409): the exception it
\* raises, or r, returned as it is.
export_json_check_FieldsFirst(r) ==
    IF r.kind # "ok" THEN r
    ELSE IF ~served[r.v].dict
        THEN RaiseMsg("RepeaterBookValidationError",
                      "Expected dict response from API")
    ELSE IF served[r.v].count = Absent \/ served[r.v].results = Absent
        THEN RaiseMsg("RepeaterBookValidationError",
                      "API response missing required 'count' or 'results' field")
    ELSE IF served[r.v].status_error
        THEN RaiseMsg("RepeaterBookAPIError", api_error_message(served[r.v]))
    ELSE r

export_json_check_CountOnly(r) ==
    IF r.kind # "ok" THEN r
    ELSE IF ~served[r.v].dict
        THEN RaiseMsg("RepeaterBookValidationError",
                      "Expected dict response from API")
    ELSE IF served[r.v].status_error
        THEN RaiseMsg("RepeaterBookAPIError", api_error_message(served[r.v]))
    ELSE IF served[r.v].count = Absent
        THEN RaiseMsg("RepeaterBookValidationError",
                      "API response missing required 'count' or 'results' field")
    ELSE r

export_json_check_Strict(r) ==
    IF r.kind # "ok" THEN r
    ELSE IF ~served[r.v].dict
        THEN RaiseMsg("RepeaterBookValidationError",
                      "Expected dict response from API")
    ELSE IF served[r.v].status_error
        THEN RaiseMsg("RepeaterBookAPIError", api_error_message(served[r.v]))
    ELSE IF served[r.v].count = Absent \/ served[r.v].results = Absent
        THEN RaiseMsg("RepeaterBookValidationError",
                      "API response missing required 'count' or 'results' field")
    ELSE IF served[r.v].count >= max_count
            \/ served[r.v].count # served[r.v].results
        THEN RaiseMsg("RepeaterBookValidationError", "count")
    ELSE r

export_json_check(r) ==
    IF r.kind # "ok" THEN r
    ELSE IF ~served[r.v].dict
        THEN RaiseMsg("RepeaterBookValidationError",
                      "Expected dict response from API")
    ELSE IF served[r.v].status_error
        THEN RaiseMsg("RepeaterBookAPIError", api_error_message(served[r.v]))
    ELSE IF served[r.v].count = Absent \/ served[r.v].results = Absent
        THEN RaiseMsg("RepeaterBookValidationError",
                      "API response missing required 'count' or 'results' field")
    ELSE r

\* The warnings export_json logs before it returns (lines 401-407).
export_json_warnings(r) ==
    IF export_json_check(r).kind # "ok" THEN {}
    ELSE (IF served[r.v].count >= max_count THEN {"trimmed"} ELSE {})
            \cup (IF served[r.v].count # served[r.v].results
                    THEN {"mismatch"} ELSE {})

(***************************************************************************)
(* asyncio.gather of the tasks, without return_exceptions: the callback of *)
(* each child.  The first exception settles the outer future; the others   *)
(* run on and their outcome is dropped.                                    *)
(***************************************************************************)

done_callback_LastWins(g, res) ==
    LET n == g.nfinished + 1
    IN  IF g.state \notin {"pending", "exception"} THEN [g EXCEPT !.nfinished = n]
        ELSE IF res.kind = "raise"
            THEN [g EXCEPT !.nfinished = n, !.state = "exception", !.exc = res.err]
        ELSE IF n = g.nfuts /\ g.state = "pending"
            THEN [g EXCEPT !.nfinished = n, !.state = "result"]
        ELSE [g EXCEPT !.nfinished = n]

done_callback(g, res) ==
    LET n == g.nfinished + 1
    IN  IF g.state # "pending" THEN [g EXCEPT !.nfinished = n]
        ELSE IF res.kind = "raise"
            THEN [g EXCEPT !.nfinished = n, !.state = "exception", !.exc = res.err]
        ELSE IF n = g.nfuts
            THEN [g EXCEPT !.nfinished = n, !.state = "result"]
        ELSE [g EXCEPT !.nfinished = n]

\* What the call p ends with: fetch_json's own outcome r for a direct call,
\* and for an export_json task r after export_json's checks.
Outcome(p, r) == IF proc[p].task THEN export_json_check(r) ELSE r

\* The call p ends with r: a task's end runs gather's done callback.
EndCall(p, r, pr) ==
    /\ proc' = [pr EXCEPT ![p].pc = IF Outcome(p, r).kind = "ok" THEN "done" ELSE "failed",
                          ![p].ret = Outcome(p, r),
                          ![p].warned = IF proc[p].task THEN export_json_warnings(r)
                                        ELSE {}]
    /\ gather' = IF proc[p].task THEN done_callback(gather, Outcome(p, r)) ELSE gather
    /\ failLog' = IF proc[p].task /\ Outcome(p, r).kind = "raise"
                    THEN Append(failLog, <<p, Outcome(p, r).err>>)
                    ELSE failLog

(***************************************************************************)
(* fetch_json, one action per await.                                       *)
(***************************************************************************)

\* Calls that have not sent their request yet: each may still need one.
BeforeGet ==
    {q \in Procs : proc[q].pc \in {"cd_exists", "cd_mkdir", "cd_gi_exists",
                                   "cd_gi_write", "stat", "read_cached", "get"}}
Budget(n) == calls + Cardinality(BeforeGet) + n <= MaxCalls

\* A caller starts fetch_json(u, cache_dir, max_cache_age = a) (lines 66-71).
Call(p, u, a) ==
    /\ proc[p].pc = "idle"
    /\ dl.pc = "idle"
    /\ Budget(1)
    /\ proc' = [proc EXCEPT ![p] = [IdleProc EXCEPT !.pc = "stat", !.url = u,
                                                   !.maxage = a]]
    /\ UNCHANGED <<filterVars, modelVars, routeVars, now, wrote, netVars, fsVars, dlVars>>

\* file_age < max_cache_age.total_seconds() (line 77).
IsFresh_Inclusive(age, maxage) == age <= maxage

IsFresh_Never(age, maxage) == FALSE

IsFresh(age, maxage) == age < maxage

\* await cache_file.stat() and the age test (lines 74-77, 80-81).
Stat(p) ==
    /\ proc[p].pc = "stat"
    /\ LET f == cache_file(proc[p].url)
       IN  IF Exists(f)
             THEN LET file_age == now - inodes[dir[f]].mtime
                  IN  proc' = [proc EXCEPT
                          ![p].seen = [exists |-> TRUE, age |-> file_age],
                          ![p].pc = IF IsFresh(file_age, proc[p].maxage)
                                      THEN "read_cached" ELSE "get"]
             ELSE proc' = [proc EXCEPT ![p].pc = "get"]
    /\ UNCHANGED <<filterVars, modelVars, routeVars, now, wrote, netVars, fsVars, dlVars>>

\* return json.loads(await cache_file.read_text()) (line 79); a file gone since
\* the stat raises FileNotFoundError, which line 80 catches.
ReadCached(p) ==
    /\ proc[p].pc = "read_cached"
    /\ LET f == cache_file(proc[p].url)
       IN  IF Exists(f)
             THEN EndCall(p, json_loads(inodes[dir[f]].data),
                          [proc EXCEPT ![p].text = inodes[dir[f]].data])
             ELSE /\ proc' = [proc EXCEPT ![p].pc = "get"]
                  /\ UNCHANGED dlVars
    /\ UNCHANGED <<filterVars, modelVars, routeVars, now, wrote, netVars, fsVars, dl>>

\* session.get(url) and response.raise_for_status() (lines 84-88): the server
\* answers request calls + 1 with a body of its choice, or with an error status.
GetOk(p) ==
    /\ proc[p].pc = "get"
    /\ \E body \in serverBodies :
         /\ calls' = calls + 1
         /\ served' = Append(served, body)
         /\ proc' = [proc EXCEPT ![p].pc = "open", ![p].resp = calls + 1,
                                 ![p].req = @ + 1]
    /\ UNCHANGED <<filterVars, modelVars, routeVars, now, wrote, serverBodies, fsVars, dlVars>>

GetError_StaleFallback(p) ==
    /\ proc[p].pc = "get"
    /\ calls' = calls + 1
    /\ served' = Append(served, NoBody)
    /\ LET f == cache_file(proc[p].url)
           pr == [proc EXCEPT ![p].req = @ + 1, ![p].resp = calls + 1]
       IN  IF Exists(f)
             THEN EndCall(p, json_loads(inodes[dir[f]].data),
                          [pr EXCEPT ![p].text = inodes[dir[f]].data])
             ELSE EndCall(p, Raise("ClientResponseError"), pr)
    /\ UNCHANGED <<filterVars, modelVars, routeVars, now, wrote, serverBodies, fsVars, dl>>

GetError(p) ==
    /\ proc[p].pc = "get"
    /\ calls' = calls + 1
    /\ served' = Append(served, NoBody)
    /\ EndCall(p, Raise("ClientResponseError"),
               [proc EXCEPT ![p].req = @ + 1, ![p].resp = calls + 1])
    /\ UNCHANGED <<filterVars, modelVars, routeVars, now, wrote, serverBodies, fsVars, dl>>

\* await temp_file.open("wb") (line 90): O_CREAT | O_TRUNC.
OpenTemp(p) ==
    /\ proc[p].pc = "open"
    /\ LET t == temp_file(proc[p].url)
       IN  IF Exists(t)
             THEN /\ inodes' = [inodes EXCEPT ![dir[t]] = [data |-> <<>>, mtime |-> now]]
                  /\ proc' = [proc EXCEPT ![p].pc = "write", ![p].fd = dir[t],
                                          ![p].off = 0]
                  /\ UNCHANGED dir
             ELSE /\ inodes' = (FreshInode :> [data |-> <<>>, mtime |-> now]) @@ inodes
                  /\ dir' = (t :> FreshInode) @@ dir
                  /\ proc' = [proc EXCEPT ![p].pc = "write", ![p].fd = FreshInode,
                                          ![p].off = 0]
    /\ UNCHANGED <<filterVars, modelVars, routeVars, now, wrote, netVars, cachedir, dlVars>>

\* One block of the body reaches the file (lines 96-98).
WriteChunk(p) ==
    /\ proc[p].pc = "write"
    /\ proc[p].off < NChunks
    /\ inodes' = [inodes EXCEPT ![proc[p].fd] =
                     [data  |-> WriteAt(@.data, proc[p].off,
                                        Chunk(proc[p].resp, proc[p].off + 1)),
                      mtime |-> now]]
    /\ proc' = [proc EXCEPT ![p].off = @ + 1]
    /\ UNCHANGED <<filterVars, modelVars, routeVars, now, wrote, netVars, cachedir, dir, dlVars>>

\* The body is through: the file and the session are closed (end of line 84's
\* async with).
CloseTemp(p) ==
    /\ proc[p].pc = "write"
    /\ proc[p].off = NChunks
    /\ LET pr == [proc EXCEPT ![p].pc = "rename", ![p].fd = 0]
       IN  /\ proc' = pr
           /\ inodes' = Collect(inodes, dir, pr)
    /\ UNCHANGED <<filterVars, modelVars, routeVars, now, wrote, netVars, cachedir, dir, dlVars>>

\* The connection breaks while the body is streamed: the file is closed as the
\* exception leaves the async with, and the temporary file stays.
StreamError(p) ==
    /\ proc[p].pc = "write"
    /\ proc[p].off < NChunks
    /\ LET pr == [proc EXCEPT ![p].fd = 0]
       IN  /\ EndCall(p, Raise("ClientPayloadError"), pr)
           /\ inodes' = Collect(inodes, dir, [pr EXCEPT ![p].pc = "failed"])
    /\ UNCHANGED <<filterVars, modelVars, routeVars, now, wrote, netVars, cachedir, dir, dl>>

\* await temp_file.rename(cache_file) (line 103): rename(2).
Rename(p) ==
    /\ proc[p].pc = "rename"
    /\ LET t == temp_file(proc[p].url)
           f == cache_file(proc[p].url)
       IN  IF Exists(t)
             THEN LET d == [n \in (DOMAIN dir \cup {f}) \ {t} |->
                               IF n = f THEN dir[t] ELSE dir[n]]
                  IN  /\ dir' = d
                      /\ inodes' = Collect(inodes, d, proc)
                      /\ proc' = [proc EXCEPT ![p].pc = "read_final"]
                      /\ UNCHANGED dlVars
             ELSE /\ EndCall(p, Raise("FileNotFoundError"), proc)
                  /\ UNCHANGED <<dir, inodes, dl>>
    /\ UNCHANGED <<filterVars, modelVars, routeVars, now, wrote, netVars, cachedir>>

\* return json.loads(await cache_file.read_text()) (line 106).
ReadFinal(p) ==
    /\ proc[p].pc = "read_final"
    /\ LET f == cache_file(proc[p].url)
       IN  /\ EndCall(p, json_loads(inodes[dir[f]].data),
                      [proc EXCEPT ![p].text = inodes[dir[f]].data])
           /\ wrote' = (proc[p].url :> json_loads(inodes[dir[f]].data)) @@ wrote
    /\ UNCHANGED <<filterVars, modelVars, routeVars, now, netVars, fsVars, dl>>

\* The caller of a direct fetch_json call takes its result or its exception.
Return(p) ==
    /\ proc[p].pc \in {"done", "failed"}
    /\ ~proc[p].task
    /\ proc' = [proc EXCEPT ![p] = IdleProc]
    /\ UNCHANGED <<filterVars, modelVars, routeVars, now, wrote, netVars, fsVars, dlVars>>

Tick ==
    /\ now < MaxTime
    /\ now' = now + 1
    /\ UNCHANGED <<filterVars, modelVars, routeVars, wrote, netVars, fsVars, proc, dlVars>>

FetchStep(p) ==
    \/ Stat(p) \/ ReadCached(p) \/ GetOk(p) \/ GetError(p) \/ OpenTemp(p)
    \/ WriteChunk(p) \/ CloseTemp(p) \/ StreamError(p) \/ Rename(p)
    \/ ReadFinal(p) \/ Return(p)

(***************************************************************************)
(* Concurrent fetch_json calls on an existing cache directory.             *)
(***************************************************************************)

FetchInit ==
    /\ query = EmptyQuery
    /\ urls = {}
    /\ routed = FALSE
    /\ now = 0
    /\ calls = 0
    /\ served = <<>>
    /\ serverBodies = {OkBody}
    /\ cachedir = [exists |-> TRUE, gitignore |-> FALSE]
    /\ dir = <<>>
    /\ inodes = <<>>
    /\ proc = [p \in Procs |-> IdleProc]
    /\ gather = NoGather
    /\ dl = NoDownload
    /\ failLog = <<>>
    /\ wrote = <<>>
    /\ raw = minimal_payload
    /\ model = NotConverted
    /\ geo = NoGeo
    /\ bandq = NoBandQuery

FetchNext ==
    \/ \E p \in Procs, u \in FetchURLs, a \in CacheAges : Call(p, u, a)
    \/ \E p \in Procs : FetchStep(p)
    \/ Tick

Spec == FetchInit /\ [][FetchNext]_vars

(***************************************************************************)
(* Sequential fetch_json calls: a call starts when no other is running.    *)
(***************************************************************************)

SeqCall(p, u, a) ==
    /\ \A q \in Procs : proc[q].pc = "idle"
    /\ Call(p, u, a)

SeqNext ==
    \/ \E p \in Procs, u \in FetchURLs, a \in CacheAges : SeqCall(p, u, a)
    \/ \E p \in Procs : FetchStep(p)
    \/ Tick

SpecSeq == FetchInit /\ [][SeqNext]_vars

(***************************************************************************)
(* RepeaterBookAPI.cache_dir, export_multi_json and download.  Each URL of *)
(* urls_export(query) gets one export_json task: cache_dir, fetch_json,    *)
(* export_json's checks; gather joins the tasks.                           *)
(***************************************************************************)

\* The orders a set can be listed in: [... for url in urls].
Orders(S) ==
    {o \in [1..Cardinality(S) -> S] : \A i, j \in 1..Cardinality(S) :
                                         i # j => o[i] # o[j]}

\* The task of each URL of S: a call per URL, export.php's first.
TaskOf(S) ==
    CHOOSE t \in Orders(S) : \A i \in 1..Len(t) :
        t[i].path = url_export_north_america => i = 1

\* download(query) up to its await of gather (lines 413-414, 418).
Download(q, a) ==
    /\ dl.pc = "idle"
    /\ \A p \in Procs : proc[p].pc = "idle"
    /\ Cardinality(urls_export(q)) <= NProcs
    /\ calls + Cardinality(urls_export(q)) <= MaxCalls
    /\ query' = q
    /\ urls' = urls_export(q)
    /\ routed' = TRUE
    /\ proc' = [p \in Procs |->
                  IF p <= Cardinality(urls_export(q))
                    THEN [IdleProc EXCEPT !.pc = "cd_exists",
                                          !.url = TaskOf(urls_export(q))[p],
                                          !.maxage = a, !.task = TRUE]
                    ELSE IdleProc]
    /\ gather' = [state |-> "pending", exc |-> "-", nfinished |-> 0,
                  nfuts |-> Cardinality(urls_export(q))]
    /\ dl' = [NoDownload EXCEPT !.pc = "waiting"]
    /\ failLog' = <<>>
    /\ UNCHANGED <<filterVars, modelVars, now, wrote, netVars, fsVars>>

\* if not await cache.exists() (line 247).
CacheDirExists(p) ==
    /\ proc[p].pc = "cd_exists"
    /\ proc' = [proc EXCEPT ![p].pc = IF cachedir.exists THEN "stat" ELSE "cd_mkdir"]
    /\ UNCHANGED <<filterVars, modelVars, routeVars, now, wrote, netVars, fsVars, dlVars>>

\* await cache.mkdir(parents=True, exist_ok=True) (line 249).
CacheDirMkdir(p) ==
    /\ proc[p].pc = "cd_mkdir"
    /\ cachedir' = [cachedir EXCEPT !.exists = TRUE]
    /\ proc' = [proc EXCEPT ![p].pc = "cd_gi_exists"]
    /\ UNCHANGED <<filterVars, modelVars, routeVars, now, wrote, netVars, dir, inodes, dlVars>>

\* if not await gitignore.exists() (line 251).
GitignoreExists(p) ==
    /\ proc[p].pc = "cd_gi_exists"
    /\ proc' = [proc EXCEPT ![p].pc = IF cachedir.gitignore THEN "stat"
                                      ELSE "cd_gi_write"]
    /\ UNCHANGED <<filterVars, modelVars, routeVars, now, wrote, netVars, fsVars, dlVars>>

\* await gitignore.write_text("*\n") (line 253).
GitignoreWrite(p) ==
    /\ proc[p].pc = "cd_gi_write"
    /\ cachedir' = [cachedir EXCEPT !.gitignore = TRUE]
    /\ proc' = [proc EXCEPT ![p].pc = "stat"]
    /\ UNCHANGED <<filterVars, modelVars, routeVars, now, wrote, netVars, dir, inodes, dlVars>>

\* Entry i of the "results" of a response: the payload of the tests with
\* Rptr ID i.  Every response lists the same repeaters, so two endpoints
\* answer with entries of the same (State ID, Rptr ID).
RawEntry(i) == [minimal_payload EXCEPT !["Rptr ID"] = JsonInt(i)]

\* export["results"] of response v.
Results(v) == [i \in 1..served[v].results |-> RawEntry(i)]

RECURSIVE Extend_Dedup(_, _)
Extend_Dedup(i, data) ==
    IF i > Len(data) THEN <<>>
    ELSE LET rest == Extend_Dedup(i + 1, data)
         IN  SelectSeq(Results(data[i].v),
                       LAMBDA e : \A k \in 1..Len(rest) : rest[k] # e) \o rest

RECURSIVE Extend(_, _)
\* results.extend(export["results"]) for the exports data[i..], data being the
\* results of the tasks in the order the URL set was listed in.
Extend(i, data) ==
    IF i > Len(data) THEN <<>>
    ELSE Results(data[i].v) \o Extend(i + 1, data)

\* The call that fetches URL u.
ProcOf(u) == CHOOSE p \in Procs : proc[p].task /\ proc[p].url = u

\* repeaters = [json_to_model(result) for result in results] (line 424): the
\* records, or the error of the first entry json_to_model raises on.
Repeaters(results) ==
    LET repeaters == [i \in 1..Len(results) |-> json_to_model(results[i])]
        bad == {i \in 1..Len(results) : repeaters[i].kind = "raise"}
    IN  IF bad = {}
          THEN [pc |-> "returned", err |-> "-",
                records |-> [i \in 1..Len(results) |-> repeaters[i].rec]]
          ELSE [pc |-> "raised", records |-> <<>>,
                err |-> repeaters[CHOOSE i \in bad : \A k \in bad : i <= k].err]

\* gather's future is settled: download raises its exception, or merges the
\* results, in the order the tasks were listed in, converts each entry and
\* returns the records (lines 413-414, 418-427).
DownloadEnd ==
    /\ dl.pc = "waiting"
    /\ gather.state \in {"exception", "result"}
    /\ IF gather.state = "exception"
         THEN dl' = [pc |-> "raised", err |-> gather.exc, records |-> <<>>]
         ELSE \E order \in Orders(urls) :
                dl' = Repeaters(Extend(1, [i \in 1..Len(order) |->
                                             proc[ProcOf(order[i])].ret]))
    /\ UNCHANGED <<filterVars, modelVars, routeVars, now, wrote, netVars, fsVars, proc, gather, failLog>>

\* The caller has the outcome and every task has ended: the next download may
\* start.
DownloadReap ==
    /\ dl.pc \in {"raised", "returned"}
    /\ \A p \in Procs : proc[p].pc \in {"idle", "done", "failed"}
    /\ proc' = [p \in Procs |-> IdleProc]
    /\ gather' = NoGather
    /\ dl' = NoDownload
    /\ failLog' = <<>>
    /\ UNCHANGED <<filterVars, modelVars, routeVars, now, wrote, netVars, fsVars>>

TaskStep(p) ==
    \/ CacheDirExists(p) \/ CacheDirMkdir(p) \/ GitignoreExists(p)
    \/ GitignoreWrite(p)
    \/ Stat(p) \/ ReadCached(p) \/ GetOk(p) \/ GetError(p) \/ OpenTemp(p)
    \/ WriteChunk(p) \/ CloseTemp(p) \/ StreamError(p) \/ Rename(p)
    \/ ReadFinal(p)

\* The queries download is called with: both endpoints, export.php alone.
DownloadQueries == {EmptyQuery, [EmptyQuery EXCEPT !.state_ids = {"06"}]}

DownloadInit ==
    /\ query = EmptyQuery
    /\ urls = {}
    /\ routed = FALSE
    /\ now = 0
    /\ calls = 0
    /\ served = <<>>
    /\ serverBodies = {OkBody, ErrorBody}
    /\ cachedir = [exists |-> FALSE, gitignore |-> FALSE]
    /\ dir = <<>>
    /\ inodes = <<>>
    /\ proc = [p \in Procs |-> IdleProc]
    /\ gather = NoGather
    /\ dl = NoDownload
    /\ failLog = <<>>
    /\ wrote = <<>>
    /\ raw = minimal_payload
    /\ model = NotConverted
    /\ geo = NoGeo
    /\ bandq = NoBandQuery

DownloadNext ==
    \/ \E q \in DownloadQueries, a \in CacheAges : Download(q, a)
    \/ \E p \in Procs : TaskStep(p)
    \/ DownloadEnd
    \/ DownloadReap
    \/ Tick

SpecDownload == DownloadInit /\ [][DownloadNext]_vars

(***************************************************************************)
(* One export_json call at a time: download of a query routed to export.php *)
(* alone, the server answering with a body of any shape.                   *)
(***************************************************************************)

ExportQueries == {[EmptyQuery EXCEPT !.state_ids = {"06"}]}

\* The bodies the server may answer with: a JSON value that is no object, and
\* the objects with or without an error status, a message, a count and
\* results.
ExportBodies ==
    {ListBody} \cup
    {JsonBody(TRUE, e, msg, c, r) :
        e \in BOOLEAN, msg \in BOOLEAN,
        c \in {Absent} \cup 0..max_count, r \in {Absent} \cup 0..max_count}

ExportInit ==
    /\ query = EmptyQuery
    /\ urls = {}
    /\ routed = FALSE
    /\ now = 0
    /\ calls = 0
    /\ served = <<>>
    /\ serverBodies \in {{body} : body \in ExportBodies}
    /\ cachedir = [exists |-> FALSE, gitignore |-> FALSE]
    /\ dir = <<>>
    /\ inodes = <<>>
    /\ proc = [p \in Procs |-> IdleProc]
    /\ gather = NoGather
    /\ dl = NoDownload
    /\ failLog = <<>>
    /\ wrote = <<>>
    /\ raw = minimal_payload
    /\ model = NotConverted
    /\ geo = NoGeo
    /\ bandq = NoBandQuery

ExportNext ==
    \/ \E q \in ExportQueries, a \in CacheAges : Download(q, a)
    \/ \E p \in Procs : TaskStep(p)
    \/ DownloadEnd
    \/ DownloadReap
    \/ Tick

SpecExport == ExportInit /\ [][ExportNext]_vars

(***************************************************************************)
(* Claims on the cache (Spec: concurrent calls; SpecSeq: one at a time).   *)
(***************************************************************************)

\* C1: under any interleaving of fetch_json calls sharing a cache directory,
\* every read of a URL's cache artifact (line 79 or line 106) returns one whole
\* body, the prior one or a newly downloaded one, never a partial or mixed one.
C1_ReadsSeeWholeBody ==
    \A p \in Procs : proc[p].text # NoText => Complete(proc[p].text)

\* The cache state the call p saw at its stat (line 75), in the claims' terms.
SawFresh(p) == proc[p].seen.exists /\ proc[p].seen.age < proc[p].maxage
SawStale(p) == ~proc[p].seen.exists \/ proc[p].seen.age >= proc[p].maxage
Ended(p)    == proc[p].pc \in {"done", "failed"}

\* C2: in a sequence of fetch_json calls on one cache directory, a call made
\* while the URL's artifact exists with age strictly below max_cache_age sends
\* no request and returns what the call that wrote the artifact returned.
C2_CacheIdempotence ==
    \A p \in Procs :
        Ended(p) /\ SawFresh(p) =>
            /\ proc[p].req = 0
            /\ proc[p].pc = "done"
            /\ proc[p].url \in DOMAIN wrote
            /\ proc[p].ret = wrote[proc[p].url]

\* A second fetch within max_cache_age has returned: one request in all.
C2_Witness ==
    \E p \in Procs :
        /\ proc[p].pc = "done" /\ SawFresh(p)
        /\ proc[p].maxage = MaxCacheAge
        /\ proc[p].seen.age > 0
        /\ calls = 1

C4_FailFast ==
    /\ dl.pc = "raised" =>
         /\ failLog # <<>>
         /\ dl.err = failLog[1][2]
         /\ dl.records = <<>>
    /\ dl.pc = "returned" => failLog = <<>>
    /\ dl.pc = "waiting" /\ failLog # <<>> =>
         /\ gather.state = "exception"
         /\ gather.exc = failLog[1][2]

\* Both exports of one download failed, differently; download raised the
\* first failure.
C4_Witness ==
    /\ dl.pc = "raised"
    /\ Len(failLog) = 2
    /\ failLog[1][2] # failLog[2][2]
    /\ dl.err = failLog[1][2]

\* C14: when every routed export succeeds, download returns one record per
\* raw entry of every response: as many records as the results lists hold
\* together, entries that two endpoints both list (same State ID and Rptr ID)
\* appearing once for each.
C14_MergeByConcatenation ==
    dl.pc = "returned" =>
        LET tasks == {p \in Procs : proc[p].task}
            Listing(i) == {p \in tasks : served[proc[p].ret.v].results >= i}
            Copies(i) == {k \in DOMAIN dl.records :
                            dl.records[k] = json_to_model(RawEntry(i)).rec}
        IN  /\ \A p \in tasks : proc[p].pc = "done"
            /\ \A i \in 1..max_count :
                 Cardinality(Copies(i)) = Cardinality(Listing(i))
            /\ \A k \in DOMAIN dl.records : \E i \in 1..max_count : k \in Copies(i)

\* Both endpoints answered with the same repeater and download returned it
\* twice.
C14_Witness ==
    /\ dl.pc = "returned"
    /\ Cardinality(urls) = 2
    /\ Len(dl.records) = 2
    /\ dl.records[1] = dl.records[2]
    /\ dl.records[1].state_id = "CA" /\ dl.records[1].repeater_id = 1

\* C15: when the server answers a fetch with a non-success status, fetch_json
\* fails after that one request: it sends no second one and does not return
\* the content of a stale cache artifact.
C15_NoRetryNoStaleFallback ==
    \A p \in Procs :
        proc[p].resp # 0 /\ ~served[proc[p].resp].http_ok =>
            /\ proc[p].pc = "failed"
            /\ proc[p].ret = Raise("ClientResponseError")
            /\ proc[p].req = 1
            /\ proc[p].text = NoText

\* A call that found a stale artifact got an error status and failed, the
\* artifact still there.
C15_Witness ==
    \E p \in Procs :
        /\ proc[p].pc = "failed" /\ proc[p].seen.exists
        /\ proc[p].resp # 0 /\ ~served[proc[p].resp].http_ok
        /\ Exists(cache_file(proc[p].url))
        /\ proc[p].ret.err = "ClientResponseError"

\* C16: a fetch that fails because the temporary file cannot be created or the
\* rename onto the cache artifact fails, fails with RepeaterBookCacheError.
C16_CacheErrorsTyped ==
    [][\A p \in Procs :
          proc[p].pc \in {"open", "rename"} /\ proc'[p].pc = "failed" =>
              proc'[p].ret.err = "RepeaterBookCacheError"]_vars

(***************************************************************************)
(* Claims on export_json (SpecExport).                                     *)
(***************************************************************************)

\* The export_json call p has ended after fetch_json decoded a body for it,
\* and that body.
Exported(p) ==
    /\ proc[p].task /\ Ended(p)
    /\ proc[p].text # NoText /\ Complete(proc[p].text)
BodyOf(p) == served[VersionOf(proc[p].text)]

\* C11: export_json fails with RepeaterBookAPIError whenever the decoded body
\* is an object whose status is "error", with the remote message, or with
\* "Unknown API error" when there is none; it does so whether or not the body
\* has count and results.
C11_ApiErrorFirst ==
    \A p \in Procs :
        Exported(p) /\ BodyOf(p).dict /\ BodyOf(p).status_error =>
            /\ proc[p].ret.kind = "raise"
            /\ proc[p].ret.err = "RepeaterBookAPIError"
            /\ proc[p].ret.msg = IF BodyOf(p).message THEN RemoteMessage
                                 ELSE "Unknown API error"

\* An error envelope with neither message, count nor results gave the API
\* error with the default message.
C11_Witness ==
    \E p \in Procs :
        /\ Exported(p) /\ BodyOf(p).status_error /\ ~BodyOf(p).message
        /\ BodyOf(p).count = Absent /\ BodyOf(p).results = Absent
        /\ proc[p].ret.err = "RepeaterBookAPIError"
        /\ proc[p].ret.msg = "Unknown API error"

\* C12: export_json fails with RepeaterBookValidationError whenever the
\* decoded body is no object, and whenever it is an object without error status
\* that lacks count or lacks results; it returns only a body that has both.
C12_ValidationErrors ==
    \A p \in Procs :
        Exported(p) =>
            /\ ~BodyOf(p).dict => proc[p].ret.err = "RepeaterBookValidationError"
            /\ ( /\ BodyOf(p).dict /\ ~BodyOf(p).status_error
                 /\ (BodyOf(p).count = Absent \/ BodyOf(p).results = Absent) )
                    => proc[p].ret.err = "RepeaterBookValidationError"
            /\ proc[p].ret.kind = "ok" =>
                    /\ BodyOf(p).dict
                    /\ BodyOf(p).count # Absent /\ BodyOf(p).results # Absent

\* A body with a count and no results was refused.
C12_Witness ==
    \E p \in Procs :
        /\ Exported(p) /\ BodyOf(p).dict /\ ~BodyOf(p).status_error
        /\ BodyOf(p).count # Absent /\ BodyOf(p).results = Absent
        /\ proc[p].ret.err = "RepeaterBookValidationError"

\* C13: a response with both count and results is returned as it is, also
\* when count >= max_count or count differs from the length of results: the
\* call does not fail and download gets every entry of results.
C13_WarningsNotFatal ==
    /\ \A p \in Procs :
         ( /\ Exported(p) /\ BodyOf(p).dict /\ ~BodyOf(p).status_error
           /\ BodyOf(p).count # Absent /\ BodyOf(p).results # Absent )
              => /\ proc[p].pc = "done"
                 /\ proc[p].ret = Ok(VersionOf(proc[p].text))
    /\ dl.pc = "returned" =>
         \A p \in Procs : proc[p].task =>
             Len(dl.records) = BodyOf(p).results

\* A response whose count is max_count and differs from the length of its
\* results was returned, both warnings logged, and download gave its entries.
C13_Witness ==
    \E p \in Procs :
        /\ Exported(p) /\ proc[p].pc = "done"
        /\ BodyOf(p).count >= max_count
        /\ BodyOf(p).count # BodyOf(p).results
        /\ proc[p].warned = {"trimmed", "mismatch"}
        /\ dl.pc = "returned"
        /\ Len(dl.records) = BodyOf(p).results
        /\ Len(dl.records) > 0

(***************************************************************************)
(* json_to_model applied to one raw record.                                *)
(***************************************************************************)

ModelInit ==
    /\ query = EmptyQuery
    /\ urls = {}
    /\ routed = FALSE
    /\ now = 0
    /\ calls = 0
    /\ served = <<>>
    /\ serverBodies = {}
    /\ cachedir = [exists |-> FALSE, gitignore |-> FALSE]
    /\ dir = <<>>
    /\ inodes = <<>>
    /\ proc = <<>>
    /\ gather = NoGather
    /\ dl = NoDownload
    /\ failLog = <<>>
    /\ wrote = <<>>
    /\ \E base \in BasePayloads, K \in OddKeys :
         \E f \in [K -> JsonValues] : raw = Patch(base, f)
    /\ model = NotConverted
    /\ geo = NoGeo
    /\ bandq = NoBandQuery

\* json_to_model(raw) returns or raises.
Convert ==
    /\ model = NotConverted
    /\ model' = json_to_model(raw)
    /\ UNCHANGED <<filterVars, raw, routeVars, now, wrote, netVars, fsVars, proc, dlVars>>

SpecModel == ModelInit /\ [][Convert]_vars

(***************************************************************************)
(* Claims on json_to_model (SpecModel).                                    *)
(***************************************************************************)

Converted == model # NotConverted

\* The raw record's Rptr ID, Precise and Operational Status are values the
\* API sends: an integer id, 0 or 1, one of the three statuses or nothing.
RptrIdSent == raw["Rptr ID"] \in {Missing, Null, JsonInt(0), JsonInt(1), JsonInt(123)}
PreciseSent == raw["Precise"] \in {Missing, JsonInt(0), JsonInt(1)}
StatusSent ==
    raw["Operational Status"] \in
        {Missing, Null, JsonStr(""), JsonStr("Off-air"), JsonStr("On-air"),
         JsonStr("Unknown")}

\* C17: json_to_model raises no error for any raw record that is a keyed
\* object, whichever of its fields are missing, null, empty or unexpected.
C17_NormalizationTotal ==
    Converted => model.kind = "ok"

\* The canonical field each boolean field of the raw record is converted to.
BoolField ==
    ("Precise" :> "precise") @@ ("FM Analog" :> "analog_capable")
        @@ ("DMR" :> "dmr_capable") @@ ("D-Star" :> "d_star_capable")
        @@ ("NXDN" :> "nxdn_capable") @@ ("APCO P-25" :> "apco_p_25_capable")
        @@ ("M17" :> "m17_capable") @@ ("Tetra" :> "tetra_capable")
        @@ ("System Fusion" :> "yaesu_system_fusion_capable")

\* C18: for each of the nine boolean fields, "Yes" and 1 give true, "No" and 0
\* give false, a missing or unrecognized value gives false, and none of them
\* makes json_to_model fail.
C18_BooleanFields ==
    Converted /\ RptrIdSent /\ StatusSent =>
        /\ model.kind = "ok"
        /\ \A k \in DOMAIN BoolField :
             model.rec[BoolField[k]] = (raw[k] \in {JsonStr("Yes"), JsonInt(1)})

\* C19: Use "OPEN", "PRIVATE", "CLOSED" gives the matching value; a missing,
\* null, empty or unrecognized Use gives OPEN.
C19_UseDefaulting ==
    Converted /\ RptrIdSent /\ PreciseSent /\ StatusSent =>
        /\ model.kind = "ok"
        /\ model.rec.use_membership =
             CASE raw["Use"] = JsonStr("PRIVATE") -> "Use.PRIVATE"
               [] raw["Use"] = JsonStr("CLOSED")  -> "Use.CLOSED"
               [] OTHER                           -> "Use.OPEN"

\* A record whose Use is null or unrecognized has been converted to OPEN.
C19_Witness ==
    /\ model.kind = "ok"
    /\ raw["Use"] \in {Null, JsonStr("Maybe")}
    /\ model.rec.use_membership = "Use.OPEN"

\* C20: Operational Status "Off-air", "On-air", "Unknown" gives the matching
\* value; a missing, null or empty one gives UNKNOWN.
C20_StatusDefaulting ==
    Converted /\ RptrIdSent /\ PreciseSent /\ StatusSent =>
        /\ model.kind = "ok"
        /\ model.rec.operational_status =
             CASE raw["Operational Status"] = JsonStr("Off-air") -> "Status.OFF_AIR"
               [] raw["Operational Status"] = JsonStr("On-air")  -> "Status.ON_AIR"
               [] OTHER                                         -> "Status.UNKNOWN"

\* A record whose Operational Status is missing, null or empty has been
\* converted to UNKNOWN.
C20_Witness ==
    /\ model.kind = "ok"
    /\ raw["Operational Status"] \in {Missing, Null, JsonStr("")}
    /\ model.rec.operational_status = "Status.UNKNOWN"

\* The optional string fields of the canonical record that the model follows,
\* by the key of the raw record each is read from.
OptionalStringField == ("PL" :> "pl_ctcss_uplink") @@ ("Region" :> "region")

\* C21: for every optional string field of the canonical record, region
\* included, a raw value that is missing, null or the empty string is
\* normalized to None, never to the empty string.
C21_OptionalStringsNone ==
    model.kind = "ok" =>
        \A k \in DOMAIN OptionalStringField :
            raw[k] \in {Missing, Null, JsonStr("")} =>
                model.rec[OptionalStringField[k]] = Null

(***************************************************************************)
(* filter_radius applied to one list of records, band to one frequency.    *)
(***************************************************************************)

GeoInit ==
    /\ query = EmptyQuery
    /\ urls = {}
    /\ routed = FALSE
    /\ now = 0
    /\ calls = 0
    /\ served = <<>>
    /\ serverBodies = {}
    /\ cachedir = [exists |-> FALSE, gitignore |-> FALSE]
    /\ dir = <<>>
    /\ inodes = <<>>
    /\ proc = <<>>
    /\ gather = NoGather
    /\ dl = NoDownload
    /\ failLog = <<>>
    /\ wrote = <<>>
    /\ raw = minimal_payload
    /\ model = NotConverted
    /\ \E origin \in GeoOrigins, distance \in GeoDistances, n \in 0..MaxRepeaters :
         \E at \in [1..n -> GeoPositions] :
            geo = [NoGeo EXCEPT
                     !.radius = Radius(origin, distance),
                     !.repeaters = [i \in 1..n |->
                                      [repeater_id |-> i, latitude |-> at[i].lat,
                                       longitude |-> at[i].lon]]]
    /\ bandq = NoBandQuery

\* filter_radius(repeaters, radius) returns.
FilterRadius ==
    /\ ~geo.called
    /\ geo' = [geo EXCEPT !.called = TRUE,
                          !.bounds = square_bounds(geo.radius),
                          !.result = filter_radius(geo.repeaters, geo.radius)]
    /\ UNCHANGED <<bandq, modelVars, routeVars, now, wrote, netVars, fsVars, proc,
                   dlVars>>

SpecGeo == GeoInit /\ [][FilterRadius]_vars

BandInit ==
    /\ query = EmptyQuery
    /\ urls = {}
    /\ routed = FALSE
    /\ now = 0
    /\ calls = 0
    /\ served = <<>>
    /\ serverBodies = {}
    /\ cachedir = [exists |-> FALSE, gitignore |-> FALSE]
    /\ dir = <<>>
    /\ inodes = <<>>
    /\ proc = <<>>
    /\ gather = NoGather
    /\ dl = NoDownload
    /\ failLog = <<>>
    /\ wrote = <<>>
    /\ raw = minimal_payload
    /\ model = NotConverted
    /\ geo = NoGeo
    /\ \E bands \in BandSets, frequency \in BandFrequencies :
         bandq = [bands |-> bands, frequency |-> frequency, matched |-> "-"]

\* The predicate band(bands) is applied to a record of the frequency.
MatchBand ==
    /\ bandq.matched = "-"
    /\ bandq' = [bandq EXCEPT
                   !.matched = IF band(bandq.bands, bandq.frequency) THEN "yes"
                               ELSE "no"]
    /\ UNCHANGED <<geo, modelVars, routeVars, now, wrote, netVars, fsVars, proc,
                   dlVars>>

SpecBand == BandInit /\ [][MatchBand]_vars


\* The distance key of a record of the filter's call, and the records of the
\* input that lie within the radius distance of the origin.
GeoKey(rep) == haversine(geo.radius.origin, PositionOf(rep))
GeoNear ==
    {i \in 1..Len(geo.repeaters) :
        WithinDistance(geo.radius.origin, PositionOf(geo.repeaters[i]),
                       geo.radius.distance)}

\* C22: filter_radius returns exactly the input records whose great-circle
\* distance from the origin is at most the radius distance (the bounding-box
\* pre-filter removes none of them), each once, in non-decreasing distance,
\* records at equal distance in input order.
C22_RadiusFilterExact ==
    geo.called =>
        /\ {geo.result[k].repeater_id : k \in 1..Len(geo.result)} = GeoNear
        /\ \A k \in 1..Len(geo.result) :
              geo.result[k] = geo.repeaters[geo.result[k].repeater_id]
        /\ \A k1, k2 \in 1..Len(geo.result) :
              k1 < k2 =>
                  /\ GeoKey(geo.result[k1]) <= GeoKey(geo.result[k2])
                  /\ GeoKey(geo.result[k1]) = GeoKey(geo.result[k2]) =>
                        geo.result[k1].repeater_id < geo.result[k2].repeater_id

\* What does hold of the result: it is a sublist of the records within the
\* distance, in non-decreasing distance and stable.
C22_ResultSoundAndSorted ==
    geo.called =>
        /\ {geo.result[k].repeater_id : k \in 1..Len(geo.result)} \subseteq GeoNear
        /\ \A k1, k2 \in 1..Len(geo.result) :
              k1 < k2 =>
                  /\ GeoKey(geo.result[k1]) <= GeoKey(geo.result[k2])
                  /\ GeoKey(geo.result[k1]) = GeoKey(geo.result[k2]) =>
                        geo.result[k1].repeater_id < geo.result[k2].repeater_id

\* A record within the distance that the bounding box does not contain.
C22_PrefilterDrops ==
    /\ geo.called
    /\ \E i \in GeoNear : ~InBounds(geo.bounds, geo.repeaters[i])

\* The bounds of the filter's call before the wraparound policy applies.
GeoSouth == geo.radius.origin.lat - lat_delta(geo.radius)
GeoNorth == geo.radius.origin.lat + lat_delta(geo.radius)
GeoWest == geo.radius.origin.lon - lon_delta(geo.radius)
GeoEast == geo.radius.origin.lon + lon_delta(geo.radius)

\* C23: square_bounds gives south = -90 and north = 90 whenever the origin
\* latitude minus or plus the latitude delta is outside [-90, 90], west = -180
\* and east = 180 whenever the origin longitude minus or plus the longitude
\* delta is outside [-180, 180]; otherwise a bound is the origin coordinate
\* minus or plus its delta.
C23_BoundsWraparound ==
    geo.called =>
        /\ IF GeoSouth < -90 \/ GeoNorth > 90
           THEN geo.bounds.south = -90 /\ geo.bounds.north = 90
           ELSE geo.bounds.south = GeoSouth /\ geo.bounds.north = GeoNorth
        /\ IF GeoWest < -180 \/ GeoEast > 180
           THEN geo.bounds.west = -180 /\ geo.bounds.east = 180
           ELSE geo.bounds.west = GeoWest /\ geo.bounds.east = GeoEast

\* A call whose box passes the pole on one side only and stays clear of the
\* antimeridian.
C23_Witness ==
    /\ geo.called
    /\ GeoNorth > 90 /\ GeoSouth >= -90
    /\ GeoWest >= -180 /\ GeoEast <= 180
    /\ geo.bounds = SquareBounds(90, -90, GeoEast, GeoWest)

\* A call whose box crosses the antimeridian on the east side only.
C23_WitnessLongitude ==
    /\ geo.called
    /\ GeoEast > 180 /\ GeoWest >= -180
    /\ geo.bounds.west = -180 /\ geo.bounds.east = 180

C24_WitnessOtherBand ==
    /\ bandq.matched = "no"
    /\ bandq.frequency = 14694
    /\ bandq.bands = {Bands.CM_70}

\* The tasks whose cache_dir call has returned: they are in fetch_json or
\* past it.
InCacheDir == {"cd_exists", "cd_mkdir", "cd_gi_exists", "cd_gi_write"}
CacheDirReturned == {p \in Procs : proc[p].task /\ proc[p].pc \notin InCacheDir \cup {"idle"}}

\* C25: whenever a cache_dir call has returned, under any interleaving of the
\* export_json calls of one download, the cache directory exists and already
\* holds the .gitignore marker.
C25_CacheDirWithMarker ==
    CacheDirReturned # {} => cachedir.exists /\ cachedir.gitignore

\* What does hold: a returned cache_dir call finds the directory, and neither
\* the directory nor the marker is ever removed.
C25_CacheDirExists ==
    CacheDirReturned # {} => cachedir.exists

C25_CacheDirKept ==
    [][/\ cachedir.exists => cachedir'.exists
       /\ cachedir.gitignore => cachedir'.gitignore]_vars

\* A task is in fetch_json while the task that made the directory has not
\* written the marker yet.
C25_MarkerMissing ==
    /\ CacheDirReturned # {}
    /\ ~cachedir.gitignore
    /\ \E p \in Procs : proc[p].pc \in {"cd_gi_exists", "cd_gi_write"}

\* The call p missed the cache, sent its request and was given the whole
\* body: it did not end on an error status or on a broken stream.
GotWholeResponse(p) ==
    /\ Ended(p)
    /\ proc[p].req = 1
    /\ served[proc[p].resp].http_ok
    /\ proc[p].ret.err # "ClientPayloadError"

\* C26: two fetch_json calls for the same URL that both miss the cache and are
\* both given a complete successful response both return the parsed body, and
\* the cache artifact then holds one complete body.
C26_ConcurrentSameUrl ==
    \A p, q \in Procs :
        /\ p # q
        /\ GotWholeResponse(p) /\ GotWholeResponse(q)
        /\ proc[p].url = proc[q].url
        => /\ proc[p].pc = "done" /\ proc[q].pc = "done"
           /\ proc[p].ret.kind = "ok" /\ proc[q].ret.kind = "ok"
           /\ Exists(cache_file(proc[p].url))
           /\ Complete(inodes[dir[cache_file(proc[p].url)]].data)

\* Both calls were given a whole body and one of them raised on the rename of
\* the temporary file the other had already moved.
C26_SecondRenameFails ==
    \E p, q \in Procs :
        /\ p # q
        /\ GotWholeResponse(p) /\ GotWholeResponse(q)
        /\ proc[p].url = proc[q].url
        /\ proc[p].pc = "done"
        /\ proc[q].ret = Raise("FileNotFoundError")

\* Both calls were given a whole body and one of them read a file the other
\* was still writing.
C26_ReadsPartialBody ==
    \E p, q \in Procs :
        /\ p # q
        /\ GotWholeResponse(p) /\ GotWholeResponse(q)
        /\ proc[p].url = proc[q].url
        /\ proc[p].ret = Raise("JSONDecodeError")

\* The cache artifact of URL u as a caller can observe it: whether it exists,
\* its content and its last-modified time.
NoArtifact == [present |-> FALSE, data |-> <<>>, mtime |-> 0]
ArtifactIn(d, ino, u) ==
    IF cache_file(u) \in DOMAIN d
      THEN [present |-> TRUE, data |-> ino[d[cache_file(u)]].data,
            mtime |-> ino[d[cache_file(u)]].mtime]
      ELSE NoArtifact
Artifact(u) == ArtifactIn(dir, inodes, u)

\* The call p failed on an error status or on a broken stream.
FailedOnTransport(p) ==
    /\ proc[p].pc = "failed"
    /\ proc[p].ret.err \in {"ClientResponseError", "ClientPayloadError"}

\* The call q returned the body it read from the artifact of URL u, so the
\* artifact was there, whole, when q read it.
ReadArtifact(q, u) ==
    /\ proc[q].pc = "done"
    /\ proc[q].url = u
    /\ Complete(proc[q].text)

\* C27: a fetch_json call that fails on a non-success status or on a transport
\* failure while the body is streamed leaves the existing cache artifact of
\* its URL as it was: an artifact that another call has read whole holds no
\* block of the response the failed call was given.
C27_FailedCallKeepsArtifact ==
    \A p, q \in Procs :
        FailedOnTransport(p) /\ ReadArtifact(q, proc[p].url) =>
            \A i \in 1..Len(Artifact(proc[p].url).data) :
                Artifact(proc[p].url).data[i][1] # proc[p].resp

\* The same, step by step: no step of a call that has not reached its rename
\* changes the artifact of the call's URL in existence, content or time.
C27_StepsBeforeRenameKeepArtifact ==
    [][\A p \in Procs :
          /\ proc[p].pc \in {"stat", "read_cached", "get", "open", "write"}
          /\ proc'[p] # proc[p]
          => ArtifactIn(dir', inodes', proc[p].url) = Artifact(proc[p].url)]_vars

\* A call that broke off while streaming has written its first block over the
\* artifact that another call of the same URL had renamed into place and read.
C27_FailedCallWroteArtifact ==
    \E p, q \in Procs :
        /\ FailedOnTransport(p)
        /\ ReadArtifact(q, proc[p].url)
        /\ Artifact(proc[p].url).present
        /\ Artifact(proc[p].url).data =
              <<Chunk(proc[p].resp, 1), Chunk(proc[q].resp, 2)>>

\* Calls made one at a time: a call failed on its stream after an earlier call
\* had stored a body, and the artifact is that body still.
C27_WitnessSequential ==
    \E p \in Procs :
        /\ FailedOnTransport(p)
        /\ proc[p].ret.err = "ClientPayloadError"
        /\ Artifact(proc[p].url).present
        /\ Complete(Artifact(proc[p].url).data)

\* export_json rejected the body the task p was given.
Rejected(p) ==
    /\ proc[p].task /\ proc[p].pc = "failed"
    /\ proc[p].ret.err \in {"RepeaterBookAPIError", "RepeaterBookValidationError"}

\* C28: a body that export_json rejects is never served from the cache: an
\* export_json call that ends in a rejection was given the body by a request
\* of its own, not by the artifact an earlier call left.
C28_RejectedBodyNotCached ==
    \A p \in Procs : Rejected(p) => proc[p].req = 1

\* The second export_json call for the URL, within max_cache_age of the first,
\* is rejected on the cached body: one request in all.
C28_RejectedFromCache ==
    \E p \in Procs :
        /\ Rejected(p)
        /\ SawFresh(p)
        /\ proc[p].req = 0
        /\ calls = 1
        /\ ~served[1].dict \/ served[1].status_error \/ served[1].count = Absent
              \/ served[1].results = Absent

\* The number of endpoints the routing rules select for the query.
EndpointsSelected ==
    (IF query_na_endpoint(query) THEN 1 ELSE 0)
        + (IF query_row_endpoint(query) THEN 1 ELSE 0)

\* C29: for every query urls_export returns a set of one or two URLs, at most
\* one per endpoint, and as many as the routing rules selected endpoints: the
\* URLs of the two endpoints never coincide.
C29_OneUrlPerEndpoint ==
    routed =>
        /\ Cardinality(urls) \in {1, 2}
        /\ \A u \in urls :
              u.path \in {url_export_north_america, url_export_rest_of_world}
        /\ \A u1, u2 \in urls : u1.path = u2.path => u1 = u2
        /\ Cardinality(urls) = EndpointsSelected

\* Both endpoints are queried with the very same parameters, and the set
\* holds two URLs.
C29_Witness ==
    /\ routed
    /\ query # EmptyQuery
    /\ EndpointsSelected = 2
    /\ Cardinality(urls) = 2
    /\ \A u1, u2 \in urls : u1.params = u2.params

\* The URLs the calls of the specifications are made for.
CachedURLs ==
    FetchURLs \cup UNION {urls_export(q) : q \in DownloadQueries \cup ExportQueries}

\* The temporary file of URL u as the directory shows it.
TempIn(d, ino, u) ==
    IF temp_file(u) \in DOMAIN d
      THEN [present |-> TRUE, data |-> ino[d[temp_file(u)]].data,
            mtime |-> ino[d[temp_file(u)]].mtime]
      ELSE NoArtifact

\* The call p, for URL u, takes the step.
StepOf(p, u) ==
    /\ proc[p].pc # "idle"
    /\ proc[p].url = u
    /\ proc'[p] # proc[p]

\* C30: a fetch_json call for URL A creates and replaces only the artifact and
\* the temporary file of A: whenever the artifact or the temporary file of a
\* URL changes, in existence, content or time, the step is one of a call for
\* that URL.
C30_CacheIsolation ==
    [][\A u \in CachedURLs :
          \/ ArtifactIn(dir', inodes', u) # Artifact(u)
          \/ TempIn(dir', inodes', u) # TempIn(dir, inodes, u)
          => \E p \in Procs : StepOf(p, u)]_vars

\* Two calls for distinct URLs are both half-way through their body, each
\* temporary file holding the first block of its own response.
C30_Witness ==
    \E p, q \in Procs :
        /\ proc[p].pc = "write" /\ proc[q].pc = "write"
        /\ proc[p].url # proc[q].url
        /\ TempIn(dir, inodes, proc[p].url).data = <<Chunk(proc[p].resp, 1)>>
        /\ TempIn(dir, inodes, proc[q].url).data = <<Chunk(proc[q].resp, 1)>>

\* Both calls have returned, and each URL's artifact is the body of the
\* response to its own call.
C30_WitnessBothStored ==
    \E p, q \in Procs :
        /\ proc[p].pc = "done" /\ proc[q].pc = "done"
        /\ proc[p].url # proc[q].url
        /\ proc[p].resp # proc[q].resp
        /\ Artifact(proc[p].url).data = Body(proc[p].resp)
        /\ Artifact(proc[q].url).data = Body(proc[q].resp)

=============================================================================
